---- MODULE Spec2Model ----
(***************************************************************************)
(* Model of scripts/post_rename.py, the Quarto post-render hook of the     *)
(* research-reports repository: the rendered report.html is renamed with   *)
(* the date, copied to the persistent archive archived_reports/, the       *)
(* archive index archive/index.qmd is regenerated and the archive is       *)
(* deployed to docs/archive/.                                              *)
(*                                                                         *)
(* File names are sequences of one-character strings, a path is the        *)
(* sequence of its components relative to the project root, and the        *)
(* filesystem is a function from the existing paths to their nodes.        *)
(***************************************************************************)
EXTENDS Naturals, Sequences, FiniteSets, TLC

(***************************************************************************)
(* Bounds of the model.                                                    *)
(***************************************************************************)
\* pipeline runs (render + post-render hook) in one behaviour
MaxRuns == 2
\* I/O errors (a filesystem call that raises for a reason outside the
\* model: permissions, a full disk): a behaviour is followed up to its
\* MaxFaults-th I/O error
MaxFaults == 1
\* distinct rendered contents
MaxContent == 2
\* calendar days of the model: indices into Dates
MaxDay == 2
\* dated reports a store holds when update_archive_qmd is checked on its own
MaxListed == 3

(***************************************************************************)
(* Strings.                                                                *)
(***************************************************************************)
\* the characters of the model's file names, in ascending code point order
CharOrder ==
    << "-", ".", "0", "1", "2", "3", "4", "5", "6", "7", "8", "9", "_",
       "a", "b", "c", "d", "e", "f", "g", "h", "i", "j", "k", "l", "m",
       "n", "o", "p", "q", "r", "s", "t", "u", "v", "w", "x", "y", "z" >>

Ord(c) == CHOOSE i \in 1..Len(CharOrder) : CharOrder[i] = c

\* Python's str < str: by code point, a proper prefix is smaller
RECURSIVE StrLess(_, _)
StrLess(a, b) ==
    IF b = <<>> THEN FALSE
    ELSE IF a = <<>> THEN TRUE
    ELSE IF a[1] = b[1] THEN StrLess(Tail(a), Tail(b))
    ELSE Ord(a[1]) < Ord(b[1])

\* str.endswith
EndsWith(s, suf) ==
    /\ Len(s) >= Len(suf)
    /\ SubSeq(s, Len(s) - Len(suf) + 1, Len(s)) = suf

StartsWith(s, pre) ==
    /\ Len(s) >= Len(pre)
    /\ SubSeq(s, 1, Len(pre)) = pre

\* str.replace(old, new): every non-overlapping occurrence, left to right
RECURSIVE StrReplace(_, _, _)
StrReplace(s, old, new) ==
    IF s = <<>> THEN <<>>
    ELSE IF StartsWith(s, old)
         THEN new \o StrReplace(SubSeq(s, Len(old) + 1, Len(s)), old, new)
         ELSE <<s[1]>> \o StrReplace(Tail(s), old, new)

\* os.path.splitext of a file name: the extension starts at the last dot,
\* leading dots excluded
SplitExt(name) ==
    LET dots == {i \in 1..Len(name) :
                    /\ name[i] = "."
                    /\ \E j \in 1..(i - 1) : name[j] # "."}
    IN  IF dots = {} THEN <<name, <<>> >>
        ELSE LET k == CHOOSE i \in dots : \A j \in dots : j <= i
             IN  <<SubSeq(name, 1, k - 1), SubSeq(name, k, Len(name))>>

Digit(n) == CharOrder[n + 3]

\* time.strftime("%Y-%-m-%-d"): month and day without padding
StrfTime_NoPad(d) ==
    LET num(n) == IF n < 10 THEN <<Digit(n)>>
                  ELSE <<Digit(n \div 10), Digit(n % 10)>>
    IN  << Digit(d[1] \div 1000), Digit((d[1] \div 100) % 10),
           Digit((d[1] \div 10) % 10), Digit(d[1] % 10), "-" >>
            \o num(d[2]) \o <<"-">> \o num(d[3])

\* time.strftime("%Y-%m-%d"): zero-padded year, month and day
StrfTime(d) ==
    << Digit(d[1] \div 1000), Digit((d[1] \div 100) % 10),
       Digit((d[1] \div 10) % 10), Digit(d[1] % 10), "-",
       Digit(d[2] \div 10), Digit(d[2] % 10), "-",
       Digit(d[3] \div 10), Digit(d[3] % 10) >>

(***************************************************************************)
(* The names the script and the renderer use.                              *)
(***************************************************************************)
S_report == <<"r", "e", "p", "o", "r", "t">>
S_html == <<".", "h", "t", "m", "l">>
S_files == <<"_", "f", "i", "l", "e", "s">>
S_latest == <<"-", "l", "a", "t", "e", "s", "t">>
S_qmd == <<".", "q", "m", "d">>
S_docs == <<"d", "o", "c", "s">>
S_archive == <<"a", "r", "c", "h", "i", "v", "e">>
S_charts == <<"c", "h", "a", "r", "t", "s">>
S_site_libs == <<"s", "i", "t", "e", "_", "l", "i", "b", "s">>
S_archived_reports ==
    <<"a", "r", "c", "h", "i", "v", "e", "d", "_",
      "r", "e", "p", "o", "r", "t", "s">>
S_archive_qmd == <<"a", "r", "c", "h", "i", "v", "e", "_", "q", "m", "d">>
S_index == <<"i", "n", "d", "e", "x">>
S_about == <<"a", "b", "o", "u", "t">>
S_ghost == <<"g", "h", "o", "s", "t">>
S_plot_png == <<"p", "l", "o", "t", ".", "p", "n", "g">>
S_fig_png == <<"f", "i", "g", ".", "p", "n", "g">>
S_a_png == <<"a", ".", "p", "n", "g">>
S_b_png == <<"b", ".", "p", "n", "g">>

persistent_archive == <<S_archived_reports>>
docs_archive == <<S_docs, S_archive>>
charts_dir == <<S_docs, S_charts>>
site_libs_dir == <<S_docs, S_site_libs>>
source_qmd == <<S_report \o S_qmd>>
archive_qmd_dir == <<S_archive_qmd>>
report_html == <<S_docs, S_report \o S_html>>
about_html == <<S_docs, S_about \o S_html>>
ghost_html == <<S_docs, S_ghost \o S_html>>

(***************************************************************************)
(* The filesystem: os and shutil.                                          *)
(***************************************************************************)
Dir == [isdir |-> TRUE, data |-> 0]
File(c) == [isdir |-> FALSE, data |-> c]

Exists(F, p) == p = <<>> \/ p \in DOMAIN F
IsDir(F, p) == p = <<>> \/ (p \in DOMAIN F /\ F[p].isdir)
IsFile(F, p) == p \in DOMAIN F /\ ~F[p].isdir

IsPrefix(p, q) == Len(p) <= Len(q) /\ SubSeq(q, 1, Len(p)) = p
\* p and everything below it
Under(F, p) == {q \in DOMAIN F : IsPrefix(p, q)}
Front(p) == SubSeq(p, 1, Len(p) - 1)
Basename(p) == p[Len(p)]
Join(p, name) == Append(p, name)
Rebase(q, src, dst) == dst \o SubSeq(q, Len(src) + 1, Len(q))

Restrict(F, S) == [q \in S |-> F[q]]
\* the subtree at p, as a function of the paths relative to p
Tree(F, p) == [r \in {SubSeq(q, Len(p) + 1, Len(q)) : q \in Under(F, p)}
                 |-> F[p \o r]]

\* os.listdir
ListDir(F, p) == {q[Len(p) + 1] : q \in {x \in Under(F, p) : Len(x) > Len(p)}}

\* every operation yields [ok, fs]: ok = FALSE is a raised exception
Ok(F) == [ok |-> TRUE, fs |-> F]
Raise(F) == [ok |-> FALSE, fs |-> F]

Ancestors(p) == {SubSeq(p, 1, k) : k \in 1..Len(p)}

\* os.makedirs(p, exist_ok=True)
MakeDirs(F, p) ==
    IF \E a \in Ancestors(p) : IsFile(F, a) THEN Raise(F)
    ELSE Ok([q \in DOMAIN F \cup Ancestors(p) |->
                IF q \in DOMAIN F THEN F[q] ELSE Dir])

\* shutil.rmtree
RmTree(F, p) ==
    IF ~IsDir(F, p) THEN Raise(F)
    ELSE Ok(Restrict(F, DOMAIN F \ Under(F, p)))

\* shutil.copytree(src, dst): dst must not exist, its parents are created
CopyTree(F, src, dst) ==
    IF ~IsDir(F, src) \/ Exists(F, dst) \/ ~MakeDirs(F, Front(dst)).ok
    THEN Raise(F)
    ELSE LET G == MakeDirs(F, Front(dst)).fs
             new == {Rebase(q, src, dst) : q \in Under(F, src)}
         IN  Ok([q \in DOMAIN G \cup new |->
                    IF q \in new THEN F[Rebase(q, dst, src)] ELSE G[q]])

\* shutil.copyfile(src, dst): dst is the file to write
CopyFile(F, src, dst) ==
    IF ~IsFile(F, src) \/ IsDir(F, dst) \/ ~IsDir(F, Front(dst))
    THEN Raise(F)
    ELSE Ok([q \in DOMAIN F \cup {dst} |-> IF q = dst THEN F[src] ELSE F[q]])

\* shutil.copy and shutil.copy2: a directory dst receives the file under
\* the source's name
Copy(F, src, dst) ==
    IF IsDir(F, dst) THEN CopyFile(F, src, Join(dst, Basename(src)))
    ELSE CopyFile(F, src, dst)

\* os.rename(src, dst), as shutil.move uses it within one filesystem
Rename(F, src, dst) ==
    IF \/ ~Exists(F, src)
       \/ ~IsDir(F, Front(dst))
       \/ (Exists(F, dst) /\ (IsDir(F, src) \/ IsDir(F, dst)))
    THEN Raise(F)
    ELSE LET moved == Under(F, src)
             new == {Rebase(q, src, dst) : q \in moved}
         IN  Ok([q \in ((DOMAIN F \ moved) \cup new) |->
                    IF q \in new THEN F[Rebase(q, dst, src)] ELSE F[q]])

\* shutil.move(src, dst): an existing directory dst receives src inside
\* it, and raises when it already holds an entry of that name
Move(F, src, dst) ==
    IF IsDir(F, dst)
    THEN IF Exists(F, Join(dst, Basename(src))) THEN Raise(F)
         ELSE Rename(F, src, Join(dst, Basename(src)))
    ELSE Rename(F, src, dst)

(***************************************************************************)
(* The environment: the clock and the renderer's outputs.                  *)
(***************************************************************************)
\* the days the clock shows, earliest first
Dates ==
    << <<2024, 1, 1>>, <<2024, 1, 15>>, <<2024, 2, 1>>, <<2024, 12, 31>>,
       <<2025, 1, 1>> >>

\* the days on which the version of a run is checked on its own, earliest
\* first: the years, months and days around each change of a digit
CalYears == <<1999, 2000, 2024, 2025>>
CalMonths == <<1, 2, 9, 10, 12>>
CalDays == <<1, 9, 10, 28>>
Calendar ==
    LET nm == Len(CalMonths)
        nd == Len(CalDays)
    IN  [k \in 1..(Len(CalYears) * nm * nd) |->
            << CalYears[((k - 1) \div (nm * nd)) + 1],
               CalMonths[(((k - 1) \div nd) % nm) + 1],
               CalDays[((k - 1) % nd) + 1] >>]
\* the day a is the day b or an earlier one
DateLeq(a, b) ==
    \/ a[1] < b[1]
    \/ a[1] = b[1] /\ a[2] < b[2]
    \/ a[1] = b[1] /\ a[2] = b[2] /\ a[3] <= b[3]

\* what a render leaves beside report.html: res, the files of report_files/
\* ({} is a render without that directory), and assets, the files of
\* docs/charts and docs/site_libs ({} is a render without them)
RenderChoices ==
    { [res |-> {S_plot_png}, assets |-> {S_a_png}],
      [res |-> {S_fig_png}, assets |-> {S_b_png}],
      [res |-> {}, assets |-> {}] }
\* QUARTO_PROJECT_OUTPUT_FILES, split into lines
TriggerChoices ==
    {<<>>, <<about_html>>, <<report_html>>, <<ghost_html, report_html>>}

None == <<>>

\* the placeholder of an empty archive
NoReportsYet ==
    << "N", "o", " ", "a", "r", "c", "h", "i", "v", "e", "d", " ",
       "r", "e", "p", "o", "r", "t", "s", " ", "y", "e", "t", "." >>
\* the front matter and heading update_archive_qmd writes above the list
FrontMatter == <<"---", "title: Archive", "---", "", "# Past Reports", "">>

VARIABLES
    fs,             \* the project directory
    today,          \* the clock: an index into Dates (Calendar in ClockSpec)
    pc,             \* the script's position
    files,          \* the files the for loop has still to take
    suffix,         \* the version suffix of the run
    ts_day,         \* the day the clock showed when the suffix was made
    has_resources,  \* STEP 1's detection
    new_res_dir,    \* STEP 3's result, None without resources
    err,            \* the step that raised, "none" otherwise
    index_qmd,      \* the content of archive/index.qmd
    runs,           \* runs so far (calls so far in IndexSpec)
    faults,         \* injected I/O errors so far
    newest,         \* the newest content rendered so far
    rendered,       \* what the last render produced
    processed,      \* whether the run has archived a report
    store0,         \* archived_reports/ when the artifact's processing began
    prev,           \* the end of the previous run when this run repeats it
    sync_removed,   \* whether STEP 11 removed a file from docs/archive
    skipped         \* the listed files passed over since the loop last took one

vars ==
    << fs, today, pc, files, suffix, ts_day, has_resources, new_res_dir, err,
       index_qmd, runs, faults, newest, rendered, processed, store0, prev,
       sync_removed, skipped >>

\* the script's local variables
\* the version of the run, lines 155-157
stamp == <<suffix, ts_day>>
locals == <<files, stamp, has_resources, new_res_dir>>
\* the environment's counters
env == <<today, runs, faults, newest, rendered>>
\* the record of the run kept for the properties
history == <<processed, store0, prev, sync_removed>>

(***************************************************************************)
(* The names of one artifact, lines 166-184 and 215.                       *)
(***************************************************************************)
BaseOf(f) == SplitExt(Basename(f))[1]
ExtOf(f) == SplitExt(Basename(f))[2]
DirOf(f) == Front(f)
NewBase(f, sfx) == BaseOf(f) \o <<"_">> \o sfx
NewName(f, sfx) == Join(DirOf(f), NewBase(f, sfx) \o ExtOf(f))
ResDir(f) == Join(DirOf(f), BaseOf(f) \o S_files)
NewRes(f, sfx) == Join(DirOf(f), NewBase(f, sfx) \o S_files)
Stable(f) == Join(DirOf(f), BaseOf(f) \o S_latest \o ExtOf(f))
\* the filter of line 169 testing the extension alone
IsWatched_AnyHtml(f) == ExtOf(f) = S_html
\* lines 166-170: the file is report.html
IsWatched(f) == BaseOf(f) = S_report /\ ExtOf(f) = S_html

\* what a directory holds: the files and directories below it
Entries(F, p) == [r \in DOMAIN Tree(F, p) \ {<<>>} |-> Tree(F, p)[r]]
\* the content of archived_reports/ and of docs/archive/
StoreTree(F) == Entries(F, persistent_archive)
PublishTree(F) == Entries(F, docs_archive)

(***************************************************************************)
(* The steps of the script, each the filesystem it leaves and whether it   *)
(* raised.  fault = TRUE makes the step's copy or move raise an I/O error. *)
(***************************************************************************)
\* STEP 2
Step2(F, f, sfx, fault) ==
    IF fault THEN Raise(F) ELSE Move(F, f, NewName(f, sfx))

\* STEP 3 placed after the archive copy of STEP 5
Step3_CommitFirst(F, f, sfx, fault) ==
    LET m == MakeDirs(F, persistent_archive)
        c == Copy(m.fs, NewName(f, sfx),
                  Join(persistent_archive, Basename(NewName(f, sfx))))
    IN  IF fault \/ ~c.ok THEN Raise(c.fs)
        ELSE Move(c.fs, ResDir(f), NewRes(f, sfx))

\* STEP 3
Step3(F, f, sfx, fault) ==
    IF fault THEN Raise(F) ELSE Move(F, ResDir(f), NewRes(f, sfx))

\* STEP 4
Step4(F, f, sfx, fault) ==
    IF fault THEN Raise(F) ELSE CopyFile(F, NewName(f, sfx), Stable(f))

\* STEP 5 recreating archived_reports/ for each report
Step5_Wipe(F, f, sfx, fault) ==
    LET w == IF Exists(F, persistent_archive)
             THEN RmTree(F, persistent_archive).fs ELSE F
        m == MakeDirs(w, persistent_archive)
    IN  IF ~m.ok \/ fault THEN Raise(m.fs)
        ELSE Copy(m.fs, NewName(f, sfx),
                  Join(persistent_archive, Basename(NewName(f, sfx))))

\* STEP 5 with shutil.move in the place of shutil.copy
Step5_Move(F, f, sfx, fault) ==
    LET m == MakeDirs(F, persistent_archive)
    IN  IF ~m.ok \/ fault THEN Raise(m.fs)
        ELSE Move(m.fs, NewName(f, sfx),
                  Join(persistent_archive, Basename(NewName(f, sfx))))

\* STEP 5
Step5(F, f, sfx, fault) ==
    LET m == MakeDirs(F, persistent_archive)
    IN  IF ~m.ok \/ fault THEN Raise(m.fs)
        ELSE Copy(m.fs, NewName(f, sfx),
                  Join(persistent_archive, Basename(NewName(f, sfx))))

\* copytree over the old copy, which is not deleted first
ReplaceTree_Merge(F, src, dst, fault) ==
    LET new == {Rebase(q, src, dst) : q \in Under(F, src)}
    IN  IF fault THEN Raise(F)
        ELSE Ok([q \in DOMAIN F \cup new |->
                    IF q \in new THEN F[Rebase(q, dst, src)] ELSE F[q]])

\* STEP 6, STEP 7 and STEP 8: delete the old copy, copy the new one
ReplaceTree(F, src, dst, fault) ==
    LET r == IF Exists(F, dst) THEN RmTree(F, dst) ELSE Ok(F)
    IN  IF ~r.ok \/ fault THEN Raise(r.fs) ELSE CopyTree(r.fs, src, dst)

Step6(F, fault) ==
    IF IsDir(F, charts_dir)
    THEN ReplaceTree(F, charts_dir, Join(persistent_archive, S_charts), fault)
    ELSE Ok(F)

Step7(F, fault) ==
    IF IsDir(F, site_libs_dir)
    THEN ReplaceTree(F, site_libs_dir,
                     Join(persistent_archive, S_site_libs), fault)
    ELSE Ok(F)

Step8(F, nrd, fault) ==
    IF nrd # None /\ IsDir(F, nrd)
    THEN ReplaceTree(F, nrd, Join(persistent_archive, Basename(nrd)), fault)
    ELSE Ok(F)

\* STEP 9
Step9(F, sfx, fault) ==
    LET m == MakeDirs(F, archive_qmd_dir)
    IN  IF ~m.ok \/ fault THEN Raise(m.fs)
        ELSE CopyFile(m.fs, source_qmd,
                      Join(archive_qmd_dir, S_report \o <<"_">> \o sfx \o S_qmd))

\* the orders in which os.listdir can return the names of S
Orders(S) ==
    {l \in [1..Cardinality(S) -> S] : \A x \in S : \E k \in DOMAIN l : l[k] = x}

\* x put in its place in the ascending list l
InsertForward(x, l) ==
    LET k == Cardinality({j \in 1..Len(l) : ~StrLess(x, l[j])})
    IN  SubSeq(l, 1, k) \o <<x>> \o SubSeq(l, k + 1, Len(l))

\* list.sort() without reverse=True
RECURSIVE SortForward(_)
SortForward(l) ==
    IF l = <<>> THEN <<>> ELSE InsertForward(Head(l), SortForward(Tail(l)))

\* the list left as os.listdir returned it
SortReverse_Unsorted(l) == l

\* x put in its place in the descending list l
InsertReverse(x, l) ==
    LET k == Cardinality({j \in 1..Len(l) : ~StrLess(l[j], x)})
    IN  SubSeq(l, 1, k) \o <<x>> \o SubSeq(l, k + 1, Len(l))

\* list.sort(reverse=True) of the listed names
RECURSIVE SortReverse(_)
SortReverse(l) ==
    IF l = <<>> THEN <<>> ELSE InsertReverse(Head(l), SortReverse(Tail(l)))

\* the lists line 94 can make of the store's names, one for each order of
\* os.listdir; the empty list when the store is missing, lines 95-97
ListedFiles(F) ==
    IF IsDir(F, persistent_archive)
    THEN Orders({n \in ListDir(F, persistent_archive) : EndsWith(n, S_html)})
    ELSE {<<>>}

ListItem(n) ==
    <<"-", " ", "[">> \o StrReplace(n, S_html, <<>>) \o <<"]", "(">> \o n
        \o <<")">>

\* update_archive_qmd: the content written to archive/index.qmd
update_archive_qmd(listing) ==
    LET listed == SortReverse(listing)
    IN  [front |-> FrontMatter,
         list_md |-> IF listed = <<>> THEN <<NoReportsYet>>
                     ELSE [k \in 1..Len(listed) |-> ListItem(listed[k])]]

\* STEP 11 copying a folder over the old one without removing it
SyncItem_Merge(F, item) ==
    LET src == Join(persistent_archive, item)
        dst == Join(docs_archive, item)
        new == {Rebase(q, src, dst) : q \in Under(F, src)}
    IN  IF IsFile(F, src) THEN Copy(F, src, dst)
        ELSE Ok([q \in DOMAIN F \cup new |->
                    IF q \in new THEN F[Rebase(q, dst, src)] ELSE F[q]])

\* STEP 11, one item of os.listdir(persistent_archive)
SyncItem(F, item) ==
    LET src == Join(persistent_archive, item)
        dst == Join(docs_archive, item)
    IN  IF IsFile(F, src) THEN Copy(F, src, dst)
        ELSE IF Exists(F, dst)
             THEN LET r == RmTree(F, dst)
                  IN  IF r.ok THEN CopyTree(r.fs, src, dst) ELSE r
             ELSE CopyTree(F, src, dst)

RECURSIVE SyncItems(_, _)
SyncItems(F, items) ==
    IF items = {} THEN Ok(F)
    ELSE LET item == CHOOSE x \in items : \A y \in items : ~StrLess(y, x)
             r == SyncItem(F, item)
         IN  IF r.ok THEN SyncItems(r.fs, items \ {item}) ELSE r

\* STEP 11 without the loop that copies the store's items
Step11_NoCopy(F, fault) ==
    LET m == MakeDirs(F, docs_archive)
    IN  IF ~m.ok \/ fault THEN Raise(m.fs) ELSE m

\* STEP 11
Step11(F, fault) ==
    LET m == MakeDirs(F, docs_archive)
    IN  IF ~m.ok \/ fault THEN Raise(m.fs)
        ELSE IF Exists(m.fs, persistent_archive)
             THEN SyncItems(m.fs, ListDir(m.fs, persistent_archive))
             ELSE m

(***************************************************************************)
(* The renderer: quarto render writes docs/ and sets the trigger list.     *)
(***************************************************************************)
\* F with the directory at p replaced by one holding names, each with c
WithDir(F, p, names, c) ==
    LET kept == DOMAIN F \ Under(F, p)
        new == IF names = {} THEN {} ELSE {p} \cup {Join(p, n) : n \in names}
    IN  [q \in kept \cup new |->
            IF q \in new THEN (IF q = p THEN Dir ELSE File(c)) ELSE F[q]]

RenderOutput(F, c, res, assets, clean) ==
    LET F0 == IF clean THEN Restrict(F, DOMAIN F \ Under(F, <<S_docs>>)) ELSE F
        F1 == MakeDirs(F0, <<S_docs>>).fs
        F2 == [q \in DOMAIN F1 \cup {report_html, about_html} |->
                  IF q \in {report_html, about_html} THEN File(c) ELSE F1[q]]
        F3 == WithDir(F2, ResDir(report_html), res, c)
        F4 == WithDir(F3, charts_dir, assets, c)
    IN  WithDir(F4, site_libs_dir, assets, c)

Idle == pc \in {"idle", "done", "failed"}

NoRender == [c |-> 0, res |-> {}, assets |-> {}]
NoPrev ==
    [valid |-> FALSE, suffix |-> <<>>, rendered |-> NoRender,
     store |-> <<>>, pub |-> <<>>]

\* the previous run's end, kept when the run now starting repeats it: the
\* previous run archived a report, on the same day, from the same render
PrevOf(now) ==
    IF /\ pc = "done" /\ processed
       /\ suffix = StrfTime(Dates[today])
       /\ rendered = now
    THEN [valid |-> TRUE, suffix |-> suffix, rendered |-> rendered,
          store |-> StoreTree(fs), pub |-> PublishTree(fs)]
    ELSE NoPrev

\* a render writes a content rendered before or the next new one: the
\* script never reads a content, so which new one it is cannot matter
ContentChoices == {c \in 1..MaxContent : c <= newest + 1}

FaultChoices == IF faults < MaxFaults THEN {FALSE, TRUE} ELSE {FALSE}

Render ==
    /\ Idle
    /\ runs < MaxRuns
    /\ faults < MaxFaults
    /\ \E c \in ContentChoices, out \in RenderChoices, clean \in BOOLEAN,
          trigger \in TriggerChoices :
          /\ fs' = RenderOutput(fs, c, out.res, out.assets, clean)
          /\ rendered' = [c |-> c, res |-> out.res, assets |-> out.assets]
          /\ prev' = PrevOf(rendered')
          /\ newest' = IF c > newest THEN c ELSE newest
          /\ files' = trigger
    /\ runs' = runs + 1
    /\ pc' = "start"
    /\ err' = "none"
    /\ processed' = FALSE
    /\ sync_removed' = FALSE
    /\ store0' = StoreTree(fs)
    /\ skipped' = <<>>
    /\ UNCHANGED <<today, faults, stamp, has_resources, new_res_dir,
                   index_qmd>>

\* midnight passes between two runs
AdvanceDay ==
    /\ Idle
    /\ today < MaxDay
    /\ today < Len(Dates)
    /\ today' = today + 1
    /\ UNCHANGED <<fs, pc, err, index_qmd, locals, runs, faults, newest,
                   rendered, history, skipped>>

(***************************************************************************)
(* The script.                                                             *)
(***************************************************************************)
\* lines 146-157
Start ==
    /\ pc = "start"
    /\ IF files = <<>>
       THEN pc' = "done" /\ UNCHANGED stamp
       ELSE /\ pc' = "fetch"
            /\ suffix' = StrfTime(Dates[today])
            /\ ts_day' = today
    /\ UNCHANGED <<fs, err, index_qmd, files, has_resources, new_res_dir,
                   env, history, skipped>>

\* the end of the for loop: the script exits
Finish ==
    /\ pc = "fetch"
    /\ files = <<>>
    /\ pc' = "done"
    /\ UNCHANGED <<fs, err, index_qmd, locals, env, history, skipped>>

\* lines 160-170 with break in the place of continue
Skip_Break ==
    /\ pc = "fetch"
    /\ files # <<>>
    /\ ~Exists(fs, Head(files)) \/ ~IsWatched(Head(files))
    /\ files' = <<>>
    /\ skipped' = Append(skipped, Head(files))
    /\ UNCHANGED <<fs, pc, err, index_qmd, stamp, has_resources,
                   new_res_dir, env, history>>

\* lines 160-170: a missing or unwatched file is passed over
Skip ==
    /\ pc = "fetch"
    /\ files # <<>>
    /\ ~Exists(fs, Head(files)) \/ ~IsWatched(Head(files))
    /\ files' = Tail(files)
    /\ skipped' = Append(skipped, Head(files))
    /\ UNCHANGED <<fs, pc, err, index_qmd, stamp, has_resources,
                   new_res_dir, env, history>>

\* lines 160-190, STEP 1
Detect ==
    /\ pc = "fetch"
    /\ files # <<>>
    /\ Exists(fs, Head(files)) /\ IsWatched(Head(files))
    /\ has_resources' = IsDir(fs, ResDir(Head(files)))
    /\ new_res_dir' = None
    /\ store0' = StoreTree(fs)
    /\ skipped' = <<>>
    /\ pc' = "s2"
    /\ UNCHANGED <<fs, err, index_qmd, files, stamp, env, processed, prev,
                   sync_removed>>

\* a step's outcome: on to the next step, or the exception ends the script
\* and with it the loop
Outcome(r, here, next, fault) ==
    /\ fs' = r.fs
    /\ faults' = IF fault THEN faults + 1 ELSE faults
    /\ IF r.ok THEN pc' = next /\ err' = err /\ files' = files
       ELSE pc' = "failed" /\ err' = here /\ files' = <<>>
    /\ UNCHANGED <<today, runs, newest, rendered, stamp, index_qmd,
                   skipped>>

S2 ==
    /\ pc = "s2"
    /\ \E fault \in FaultChoices :
          Outcome(Step2(fs, Head(files), suffix, fault), "s2", "s3", fault)
    /\ UNCHANGED <<has_resources, new_res_dir, history>>

S3 ==
    /\ pc = "s3"
    /\ \E fault \in (IF has_resources THEN FaultChoices ELSE {FALSE}) :
          LET r == IF has_resources
                   THEN Step3(fs, Head(files), suffix, fault)
                   ELSE Ok(fs)
          IN  /\ Outcome(r, "s3", "s4", fault)
              /\ new_res_dir' = IF has_resources /\ r.ok
                                THEN NewRes(Head(files), suffix) ELSE None
    /\ UNCHANGED <<has_resources, history>>

S4 ==
    /\ pc = "s4"
    /\ \E fault \in FaultChoices :
          Outcome(Step4(fs, Head(files), suffix, fault), "s4", "s5", fault)
    /\ UNCHANGED <<has_resources, new_res_dir, history>>

S5 ==
    /\ pc = "s5"
    /\ \E fault \in FaultChoices :
          Outcome(Step5(fs, Head(files), suffix, fault), "s5", "s6", fault)
    /\ UNCHANGED <<has_resources, new_res_dir, history>>

S6 ==
    /\ pc = "s6"
    /\ \E fault \in (IF IsDir(fs, charts_dir) THEN FaultChoices ELSE {FALSE}) :
          Outcome(Step6(fs, fault), "s6", "s7", fault)
    /\ UNCHANGED <<has_resources, new_res_dir, history>>

S7 ==
    /\ pc = "s7"
    /\ \E fault \in (IF IsDir(fs, site_libs_dir) THEN FaultChoices
                     ELSE {FALSE}) :
          Outcome(Step7(fs, fault), "s7", "s8", fault)
    /\ UNCHANGED <<has_resources, new_res_dir, history>>

S8 ==
    /\ pc = "s8"
    /\ \E fault \in (IF new_res_dir # None /\ IsDir(fs, new_res_dir)
                     THEN FaultChoices ELSE {FALSE}) :
          Outcome(Step8(fs, new_res_dir, fault), "s8", "s9", fault)
    /\ UNCHANGED <<has_resources, new_res_dir, history>>

S9 ==
    /\ pc = "s9"
    /\ \E fault \in FaultChoices :
          Outcome(Step9(fs, suffix, fault), "s9", "s10", fault)
    /\ UNCHANGED <<has_resources, new_res_dir, history>>

\* STEP 10: open(qmd_file_path, "w") needs the directory archive/
S10 ==
    /\ pc = "s10"
    /\ IF IsDir(fs, <<S_archive>>)
       THEN /\ \E listing \in ListedFiles(fs) :
                  index_qmd' = update_archive_qmd(listing)
            /\ pc' = "s11" /\ err' = err /\ files' = files
       ELSE /\ index_qmd' = index_qmd
            /\ pc' = "failed" /\ err' = "s10" /\ files' = <<>>
    /\ UNCHANGED <<fs, stamp, has_resources, new_res_dir, env, history, skipped>>

S11 ==
    /\ pc = "s11"
    /\ \E fault \in FaultChoices :
          /\ Outcome(Step11(fs, fault), "s11", "synced", fault)
          /\ processed' = (processed \/ Step11(fs, fault).ok)
    /\ sync_removed' =
          (sync_removed
             \/ ~(DOMAIN PublishTree(fs) \subseteq DOMAIN PublishTree(fs')))
    /\ UNCHANGED <<has_resources, new_res_dir, store0, prev>>

\* the for loop takes the next file
LoopNext ==
    /\ pc = "synced"
    /\ files' = Tail(files)
    /\ pc' = "fetch"
    /\ UNCHANGED <<fs, err, index_qmd, stamp, has_resources, new_res_dir,
                   env, history, skipped>>

(***************************************************************************)
(* Properties.                                                             *)
(***************************************************************************)
PrimaryName(sfx) == S_report \o <<"_">> \o sfx \o S_html
ResName(sfx) == S_report \o <<"_">> \o sfx \o S_files
\* the files of a rendered resource directory, as a tree
RenderedRes(rd) == [r \in {<<n>> : n \in rd.res} |-> File(rd.c)]
\* the archived entry of a version in a tree: its primary file and the
\* content of its resource directory, <<>> standing for what is missing
EntryOf(T, sfx) ==
    [primary |-> IF <<PrimaryName(sfx)>> \in DOMAIN T
                 THEN T[<<PrimaryName(sfx)>>] ELSE <<>>,
     res |-> [r \in {SubSeq(q, 2, Len(q)) :
                       q \in {x \in DOMAIN T :
                                Len(x) > 1 /\ x[1] = ResName(sfx)}}
                |-> T[<<ResName(sfx)>> \o r]]]
\* the entry a render's artifact makes
ArtifactEntry(rd) == [primary |-> File(rd.c), res |-> RenderedRes(rd)]

\* C1: a run that repeats the previous run (same day, same render) ends
\* with archived_reports/ and docs/archive/ as the previous run left them.
C1_IdempotentRerun ==
    (pc = "done" /\ processed /\ prev.valid)
        => (StoreTree(fs) = prev.store /\ PublishTree(fs) = prev.pub)

\* C2: once STEP 3 has moved a detected resource directory, the files the
\* renderer put in docs/report_files are directly in
\* docs/report_<version>_files.
C2_NamingCorrespondence ==
    (pc = "s4" /\ has_resources)
        => \A n \in rendered.res :
              /\ IsFile(fs, Join(NewRes(Head(files), suffix), n))
              /\ fs[Join(NewRes(Head(files), suffix), n)] = File(rendered.c)

\* C3: a completed run on docs/report.html rendered with
\* report_files/plot.png ends with the versioned report, its plot.png, the
\* latest alias, the archived copy and the deployed copy, all of the
\* rendered content.
C3_EndState ==
    (pc = "done" /\ processed /\ S_plot_png \in rendered.res)
        => /\ IsFile(fs, <<S_docs, PrimaryName(suffix)>>)
           /\ fs[<<S_docs, PrimaryName(suffix)>>] = File(rendered.c)
           /\ IsFile(fs, <<S_docs, ResName(suffix), S_plot_png>>)
           /\ IsFile(fs, <<S_docs, S_report \o S_latest \o S_html>>)
           /\ fs[<<S_docs, S_report \o S_latest \o S_html>>]
                 = fs[<<S_docs, PrimaryName(suffix)>>]
           /\ IsFile(fs, Join(persistent_archive, PrimaryName(suffix)))
           /\ fs[Join(persistent_archive, PrimaryName(suffix))]
                 = File(rendered.c)
           /\ IsFile(fs, Join(docs_archive, PrimaryName(suffix)))
           /\ fs[Join(docs_archive, PrimaryName(suffix))] = File(rendered.c)

\* C4: a completed run whose version was archived before, from another
\* artifact, leaves the archived entry of that version equal to its own
\* artifact: its primary content and exactly its resource files.
C4_WholesaleOverwrite ==
    (/\ pc = "done" /\ processed
     /\ <<PrimaryName(suffix)>> \in DOMAIN store0
     /\ EntryOf(store0, suffix) # ArtifactEntry(rendered))
        => EntryOf(StoreTree(fs), suffix) = ArtifactEntry(rendered)

\* C5: whatever step raises, archived_reports/ is as it was when the
\* artifact's processing began.
C5_AbortBeforeStore ==
    pc = "failed" => StoreTree(fs) = store0

\* C6: when the move of STEP 2 or of STEP 3 raises, archived_reports/ is as
\* it was when the artifact's processing began.
C6_FailedMoveLeavesStore ==
    (pc = "failed" /\ err \in {"s2", "s3"}) => StoreTree(fs) = store0

C6_Witness ==
    /\ pc = "failed" /\ err = "s3"
    /\ DOMAIN store0 # {}

\* the archived primary files
StorePrimaries(F) ==
    {n \in ListDir(F, persistent_archive) :
        /\ IsFile(F, Join(persistent_archive, n))
        /\ StartsWith(n, S_report \o <<"_">>) /\ EndsWith(n, S_html)}
\* what the script may delete in archived_reports/
Replaceable(sfx) ==
    {Join(persistent_archive, S_charts), Join(persistent_archive, S_site_libs),
     Join(persistent_archive, ResName(sfx))}

\* C7: no step removes an archived primary file, and what a step removes
\* from archived_reports/ is in charts/, in site_libs/ or in the resource
\* directory of the run's version.
C7_AppendOnly ==
    [][/\ StorePrimaries(fs) \subseteq StorePrimaries(fs')
       /\ \A q \in Under(fs, persistent_archive) \ DOMAIN fs' :
             \E d \in Replaceable(suffix) : IsPrefix(d, q)]_vars

\* a run has committed its report beside an older version's, and has
\* replaced a shared directory of the store
C7_Witness ==
    /\ pc = "s9"
    /\ PrimaryName(suffix) \in StorePrimaries(fs)
    /\ StorePrimaries(fs) # {PrimaryName(suffix)}
    /\ \E r \in DOMAIN store0 : r \notin DOMAIN StoreTree(fs)

\* C8: after STEP 11 every entry of archived_reports/ is in docs/archive/
\* under its name with the same content, a directory with exactly the
\* store directory's files.
C8_SyncReplaces ==
    pc = "synced"
        => \A item \in ListDir(fs, persistent_archive) :
              /\ Exists(fs, Join(docs_archive, item))
              /\ Tree(fs, Join(docs_archive, item))
                    = Tree(fs, Join(persistent_archive, item))

\* the synchronization removed a file docs/archive/ held before
C8_Witness == pc = "synced" /\ sync_removed

\* a line of the list is an entry: "- [label](file)"
IsEntry(line) == StartsWith(line, <<"-", " ", "[">>)
\* the file an entry links to: what stands between its last "(" and ")"
LinkTarget(line) ==
    LET k == CHOOSE j \in 1..Len(line) :
                /\ line[j] = "("
                /\ \A m \in (j + 1)..Len(line) : line[m] # "("
    IN  SubSeq(line, k + 1, Len(line) - 1)
\* the files the entries of an index link to, in the order of the entries
Links(ix) ==
    LET ent == SelectSeq(ix.list_md, IsEntry)
    IN  [k \in 1..Len(ent) |-> LinkTarget(ent[k])]
HtmlNames(F) ==
    {n \in ListDir(F, persistent_archive) : EndsWith(n, S_html)}

\* C9: the index written by update_archive_qmd has exactly one entry for
\* each archived report file and its entries are in strictly descending
\* order of file name.
C9_IndexOrdering ==
    pc = "indexed"
        => LET L == Links(index_qmd)
           IN  /\ \A n \in StorePrimaries(fs) :
                     Cardinality({k \in 1..Len(L) : L[k] = n}) = 1
               /\ \A k \in 1..(Len(L) - 1) : StrLess(L[k + 1], L[k])

\* the store of the specification's example, listed newest first
C9_Witness ==
    /\ pc = "indexed"
    /\ HtmlNames(fs) = {PrimaryName(StrfTime(Dates[d])) : d \in 1..3}
    /\ Links(index_qmd)
          = << PrimaryName(StrfTime(<<2024, 2, 1>>)),
               PrimaryName(StrfTime(<<2024, 1, 15>>)),
               PrimaryName(StrfTime(<<2024, 1, 1>>)) >>

\* C10: the files the index lists are the .html files of archived_reports/
\* without the index file index.html.
C10_IndexMembership ==
    pc = "indexed"
        => {Links(index_qmd)[k] : k \in 1..Len(Links(index_qmd))}
              = HtmlNames(fs) \ {S_index \o S_html}

\* C11: called on a store that is missing or holds no archived report file,
\* update_archive_qmd writes the placeholder and no entry; called on a store
\* with an archived report, it writes no placeholder.
C11_EmptyStorePlaceholder ==
    pc = "indexed"
        => IF StorePrimaries(fs) = {}
           THEN /\ index_qmd.list_md = <<NoReportsYet>>
                /\ Links(index_qmd) = <<>>
           ELSE \A k \in 1..Len(index_qmd.list_md) :
                   index_qmd.list_md[k] # NoReportsYet

\* the file report.html, under any directory
IsReport(f) == Basename(f) = S_report \o S_html
NoReport(l) == \A k \in 1..Len(l) : ~IsReport(l[k])

\* C12: in a run whose trigger list is empty or names no report.html, no
\* step of the script changes a file or directory (so nothing is renamed,
\* and archived_reports/ and docs/archive/ stay as they were) and
\* archive/index.qmd keeps its content.  Until a file is taken the trigger
\* list is skipped \o files: each step of such a run keeps that list, takes
\* no file and changes nothing.
C12_NoWatchedNoEffect ==
    [][(/\ runs' = runs
        /\ pc \in {"start", "fetch"} /\ ~processed
        /\ NoReport(skipped \o files))
          => /\ fs' = fs
             /\ index_qmd' = index_qmd
             /\ pc' \in {"fetch", "done"} /\ ~processed'
             /\ skipped' \o files' = skipped \o files]_vars

\* a run listing only docs/about.html has ended beside a rendered
\* docs/report.html, with a report archived and indexed before
C12_Witness ==
    /\ pc = "done" /\ ~processed
    /\ skipped = <<about_html>>
    /\ IsFile(fs, report_html)
    /\ StorePrimaries(fs) # {}
    /\ Len(Links(index_qmd)) > 0

\* C13: a listed path that does not exist is passed over: the step changes
\* no file, not the index, raises nothing and leaves the rest of the list
\* to the loop; and an existing report.html at the head of the list is
\* taken, whatever was passed over before it.  The state after the missing
\* path is the state of a run listing only what follows it, but for the
\* record of the path passed over.
C13_MissingSkipped ==
    [][/\ (pc = "fetch" /\ files # <<>> /\ ~Exists(fs, Head(files)))
          => /\ files' = Tail(files)
             /\ skipped' = Append(skipped, Head(files))
             /\ pc' = "fetch" /\ err' = err
             /\ fs' = fs /\ index_qmd' = index_qmd
             /\ UNCHANGED <<suffix, has_resources, new_res_dir, env, history>>
       /\ (/\ pc = "fetch" /\ files # <<>>
           /\ Exists(fs, Head(files)) /\ IsReport(Head(files)))
          => /\ pc' = "s2" /\ files' = files /\ skipped' = <<>>
             /\ fs' = fs]_vars

\* the loop has passed over the missing docs/ghost.html and has the
\* existing docs/report.html to take
C13_Witness ==
    /\ pc = "fetch"
    /\ skipped = <<ghost_html>> /\ ~Exists(fs, ghost_html)
    /\ files = <<report_html>> /\ IsFile(fs, report_html)

\* C14: once STEP 6 has copied docs/charts, archived_reports/charts holds
\* exactly the files of docs/charts, and once STEP 7 has copied
\* docs/site_libs, archived_reports/site_libs holds exactly the files of
\* docs/site_libs, to the end of the artifact's processing.
C14_SharedAssetsReplaced ==
    /\ (pc \in {"s7", "s8", "s9", "s10", "s11", "synced"}
          /\ IsDir(fs, charts_dir))
         => Tree(fs, Join(persistent_archive, S_charts)) = Tree(fs, charts_dir)
    /\ (pc \in {"s8", "s9", "s10", "s11", "synced"}
          /\ IsDir(fs, site_libs_dir))
         => Tree(fs, Join(persistent_archive, S_site_libs))
               = Tree(fs, site_libs_dir)

\* both directories are refreshed, and a file of the store's previous
\* charts and one of its previous site_libs are gone
C14_Witness ==
    /\ pc = "s8"
    /\ IsDir(fs, charts_dir) /\ IsDir(fs, site_libs_dir)
    /\ \E r \in DOMAIN store0 :
          Len(r) = 2 /\ r[1] = S_charts /\ r \notin DOMAIN StoreTree(fs)
    /\ \E r \in DOMAIN store0 :
          Len(r) = 2 /\ r[1] = S_site_libs /\ r \notin DOMAIN StoreTree(fs)

\* C15: from the rename of STEP 2 to the end of the run, whether the run
\* completes or a later step raises, docs/report_<version>.html exists with
\* the rendered content: the copy to archived_reports/ and the
\* synchronization to docs/archive/ leave it in place.
C15_CommitCopies ==
    (\/ pc \in {"s3", "s4", "s5", "s6", "s7", "s8", "s9", "s10", "s11",
                "synced"}
     \/ (pc \in {"fetch", "done"} /\ processed)
     \/ (pc = "failed" /\ err # "s2"))
        => /\ IsFile(fs, <<S_docs, PrimaryName(suffix)>>)
           /\ fs[<<S_docs, PrimaryName(suffix)>>] = File(rendered.c)

\* the report is committed and synchronized, and is still in docs/
C15_Witness ==
    /\ pc = "synced"
    /\ IsFile(fs, Join(persistent_archive, PrimaryName(suffix)))
    /\ IsFile(fs, Join(docs_archive, PrimaryName(suffix)))
    /\ IsFile(fs, <<S_docs, PrimaryName(suffix)>>)

\* C18: when a run that archived report.html has ended without an
\* exception, archive/index.qmd links to the run's report_<version>.html,
\* and every file it links to is a file of archived_reports/ and of
\* docs/archive/.
C18_IndexLinkIntegrity ==
    (pc = "done" /\ processed)
        => LET L == Links(index_qmd)
           IN  /\ \E k \in 1..Len(L) : L[k] = PrimaryName(suffix)
               /\ \A k \in 1..Len(L) :
                     /\ IsFile(fs, Join(persistent_archive, L[k]))
                     /\ IsFile(fs, Join(docs_archive, L[k]))

\* a completed run whose index links to its report and to an older one
C18_Witness ==
    /\ pc = "done" /\ processed
    /\ Len(Links(index_qmd)) = 2
    /\ Links(index_qmd)[1] = PrimaryName(suffix)

Init ==
    /\ fs = (source_qmd :> File(1)) @@ (<<S_archive>> :> Dir)
    /\ today = 1
    /\ pc = "idle"
    /\ files = <<>>
    /\ suffix = <<>>
    /\ ts_day = 0
    /\ has_resources = FALSE
    /\ new_res_dir = None
    /\ err = "none"
    /\ index_qmd = [front |-> FrontMatter, list_md |-> <<>>]
    /\ runs = 0
    /\ faults = 0
    /\ newest = 0
    /\ rendered = NoRender
    /\ processed = FALSE
    /\ store0 = StoreTree(fs)
    /\ prev = NoPrev
    /\ sync_removed = FALSE
    /\ skipped = <<>>

(***************************************************************************)
(* update_archive_qmd on its own, called on a store in any state.          *)
(***************************************************************************)
\* the files and the directories a store may hold
StoreFiles ==
    {PrimaryName(StrfTime(Dates[d])) : d \in 1..MaxListed}
        \cup {S_index \o S_html, S_a_png}
StoreDirs == {S_charts, ResName(StrfTime(Dates[1]))}

\* the project with archived_reports/ holding the files fl and the
\* directories ds, or without archived_reports/
WithStore(present, fl, ds) ==
    LET root == (source_qmd :> File(1)) @@ (<<S_archive>> :> Dir)
        new == {persistent_archive}
                  \cup {Join(persistent_archive, n) : n \in fl \cup ds}
    IN  IF ~present THEN root
        ELSE [q \in DOMAIN root \cup new |->
                 IF q \in DOMAIN root THEN root[q]
                 ELSE IF Len(q) = 2 /\ q[2] \in fl THEN File(1) ELSE Dir]

IndexInit ==
    /\ MaxListed <= Len(Dates)
    /\ \E present \in BOOLEAN, fl \in SUBSET StoreFiles, ds \in SUBSET StoreDirs :
          /\ present \/ (fl = {} /\ ds = {})
          /\ fs = WithStore(present, fl, ds)
    /\ today = 1
    /\ pc = "idle"
    /\ files = <<>>
    /\ suffix = <<>>
    /\ ts_day = 0
    /\ has_resources = FALSE
    /\ new_res_dir = None
    /\ err = "none"
    /\ index_qmd = [front |-> FrontMatter, list_md |-> <<>>]
    /\ runs = 0
    /\ faults = 0
    /\ newest = 0
    /\ rendered = NoRender
    /\ processed = FALSE
    /\ store0 = StoreTree(fs)
    /\ prev = NoPrev
    /\ sync_removed = FALSE
    /\ skipped = <<>>

\* update_archive_qmd("archive/index.qmd")
IndexCall ==
    /\ pc \in {"idle", "indexed"}
    /\ runs < MaxRuns
    /\ \E listing \in ListedFiles(fs) :
          index_qmd' = update_archive_qmd(listing)
    /\ pc' = "indexed"
    /\ runs' = runs + 1
    /\ UNCHANGED <<fs, err, locals, today, faults, newest, rendered,
                   history, skipped>>

\* C17: a second call of update_archive_qmd on the unchanged store writes
\* the content the first call wrote, whatever the orders in which
\* os.listdir returned the names to the two calls.
C17_IndexDeterminism ==
    [][(pc = "indexed" /\ pc' = "indexed" /\ fs' = fs)
          => index_qmd' = index_qmd]_vars

\* update_archive_qmd has been called twice on a store whose names
\* os.listdir can return in more than one order
C17_Witness ==
    /\ pc = "indexed" /\ runs = 2
    /\ Cardinality(ListedFiles(fs)) > 1

IndexNext == IndexCall

IndexSpec == IndexInit /\ [][IndexNext]_vars

(***************************************************************************)
(* The version of a run on its own: runs on any days of Calendar, the      *)
(* clock never going back.                                                 *)
(***************************************************************************)
ClockInit ==
    /\ today \in 1..Len(Calendar)
    /\ fs = (source_qmd :> File(1)) @@ (<<S_archive>> :> Dir)
    /\ pc = "idle"
    /\ files = <<>>
    /\ suffix = <<>>
    /\ ts_day = 0
    /\ has_resources = FALSE
    /\ new_res_dir = None
    /\ err = "none"
    /\ index_qmd = [front |-> FrontMatter, list_md |-> <<>>]
    /\ runs = 0
    /\ faults = 0
    /\ newest = 0
    /\ rendered = NoRender
    /\ processed = FALSE
    /\ store0 = StoreTree(fs)
    /\ prev = NoPrev
    /\ sync_removed = FALSE
    /\ skipped = <<>>

\* days pass between two runs
ClockTick ==
    /\ \E d \in (today + 1)..Len(Calendar) : today' = d
    /\ UNCHANGED <<fs, pc, err, index_qmd, locals, runs, faults, newest,
                   rendered, history, skipped>>

\* lines 155-157: a run makes its version
Stamp ==
    /\ runs < MaxRuns
    /\ suffix' = StrfTime(Calendar[today])
    /\ ts_day' = today
    /\ runs' = runs + 1
    /\ UNCHANGED <<fs, today, pc, err, index_qmd, files, has_resources,
                   new_res_dir, faults, newest, rendered, history, skipped>>

ClockNext == ClockTick \/ Stamp

ClockSpec == ClockInit /\ [][ClockNext]_vars

\* C16: when a run makes its version on the day of the run before it or on
\* a later day, the version is the earlier one or lexically greater, and on
\* the same day it is the same version.
C16_VersionOrdering ==
    [][(ts_day # 0 /\ runs' = runs + 1)
          => /\ DateLeq(Calendar[ts_day], Calendar[ts_day'])
                  => ~StrLess(suffix', suffix)
             /\ Calendar[ts_day] = Calendar[ts_day'] => suffix' = suffix]_vars

\* a second run has made its version on 2000-01-01, on or after the day of
\* the first
C16_Witness ==
    /\ runs = 2
    /\ Calendar[ts_day] = <<2000, 1, 1>>
    /\ suffix = <<"2", "0", "0", "0", "-", "0", "1", "-", "0", "1">>

Next ==
    \/ Render
    \/ AdvanceDay
    \/ Start
    \/ Finish
    \/ Skip
    \/ Detect
    \/ S2
    \/ S3
    \/ S4
    \/ S5
    \/ S6
    \/ S7
    \/ S8
    \/ S9
    \/ S10
    \/ S11
    \/ LoopNext

Spec == Init /\ [][Next]_vars

====
